---- MODULE Spec2Model ----
(***************************************************************************)
(* Model of TriageDownload.py: main() loads the stored cookies into a      *)
(* session, reads the family name, fetches and parses the search page and  *)
(* then calls download_sample (wrapped by tenacity's @retry) for every     *)
(* parsed sample id.                                                       *)
(***************************************************************************)
EXTENDS Integers, Sequences, FiniteSets, TLC

\* ---------------------------------------------------------------- bounds
\* longest search document, counted in elements
MaxElems == 2

\* ------------------------------------------------------ program constants
MIN_FILE_SIZE == 1024
\* stop=stop_after_attempt(5)
stop_after_attempt == 5

\* ------------------------------------------------------------ input sets
\* values of the data-sample-id attribute that occur in a document
SampleIds == {"a1", "a2"}
\* an element of the document: one that carries data-sample-id (its value),
\* or one that does not ("x")
Elements == SampleIds \cup {"x"}
\* documents: the empty string is <<>>
Docs == UNION {[1..n -> Elements] : n \in 0..MaxElems}
\* what the user can type at the family prompt (characters)
FamilyInputs == {<<>>, <<" ">>, <<"f">>, <<" ", "f", " ">>}
\* body lengths a 2xx download response can have
BodySizes == {500, 1024, 2048}
\* final statuses of a response (requests follows 301/302/303/307/308)
Statuses == {200, 300, 403, 404, 429, 503}
\* requests.RequestException subclasses raised by session.get or iter_content
NetErrors == {"ConnectionError", "Timeout"}
\* CONFIG_FILE as found on disk when the run starts
ConfigFiles == {"absent", "invalid_json", "no_cookies", "cookies"}
\* what automate_browser_and_extract_cookies can leave behind
BrowserOutcomes == {"launch_error", "failed", "saved_empty", "saved_cookies"}

\* what can go wrong with the local file while a 2xx body is handled:
\* open() fails, the connection breaks in iter_content, f.write fails,
\* os.path.getsize fails, os.remove fails
IOEvents == {"ok", "open_fails", "stream_breaks", "write_fails",
             "getsize_fails", "remove_fails"}
\* what one call of session.get(download_url, stream=True) can meet
Responses ==
    [kind : {"error"}, exc : NetErrors \cup {"TooManyRedirects", "ValueError"}]
    \cup [kind : {"status"}, status : Statuses \ {200, 300}]
    \cup [kind : {"body"}, status : {200}, size : BodySizes, io : IOEvents]
\* what the search GET can meet
SearchResponses ==
    [kind : {"error"}, exc : NetErrors \cup {"TooManyRedirects"}]
    \cup [kind : {"status"}, status : Statuses, text : Docs]

NoFile == -1
None == <<"None">>

VARIABLES
    pc,            \* position of main()
    state,         \* state of the run (Init, Authenticated, ..., Failed)
    uncaught,      \* exception that left main() uncaught, or "none"
    exitMsg,       \* the message main() printed on leaving
    configFile,    \* CONFIG_FILE on disk
    sessionCookies,\* TRUE when the session holds the stored cookies
    family,        \* the stripped family name
    searchResult,  \* the search response without its text; kind "none" before
    searchGets,    \* number of search GETs issued
    parsed,        \* TRUE once parse_sample_ids has been called
    html_content,  \* what fetch_search_page returned
    sample_ids,    \* what parse_sample_ids returned
    download_dir,  \* TRUE once os.makedirs created the directory
    idx,           \* position of the for loop in sample_ids (1-based)
    dispatched,    \* the identifiers handed to download_sample, in order
    attempt,       \* tenacity's attempt_number of the running download
    gets,          \* download GETs issued for the identifier dispatched last
    outcome,       \* outcome[i]: how the download of sample_ids[i] ended
    handler,       \* the except clause that ended the last download
    cls,           \* class of the last download response
    uniform,       \* TRUE while every attempt of this download had class cls
    opened,        \* TRUE once this download opened its destination file
    body,          \* bytes of the body streamed to the end by the last attempt
    partial,       \* TRUE once an attempt of this download stopped inside a body
    waits,         \* the delays the wrapper slept between this download's attempts
    cancelled,     \* TRUE once KeyboardInterrupt was raised in the download loop
    respOpen,      \* TRUE while the response of line 110 is open
    fileOpen,      \* TRUE while the file object of line 124 is open
    disk           \* disk[id]: size of <id>_sample.zip, or NoFile

vars == <<pc, state, uncaught, exitMsg, configFile, sessionCookies, family,
          searchResult, searchGets, parsed, html_content, sample_ids,
          download_dir, idx, dispatched, attempt, gets, outcome, handler,
          cls, uniform, opened, body, partial, waits,
                   cancelled, respOpen, fileOpen, disk>>

runVars == <<pc, state, uncaught, exitMsg>>
authVars == <<configFile, sessionCookies>>
searchVars == <<family, searchResult, searchGets, parsed, html_content,
                sample_ids>>
loopVars == <<download_dir, idx, dispatched, attempt, gets, outcome, handler,
              cls, uniform, opened, body, partial, waits,
                   cancelled, respOpen, fileOpen, disk>>

\* ------------------------------------------------------------ pure parts

\* str.strip() on a sequence of characters
RECURSIVE lstrip(_)
lstrip(s) == IF s # <<>> /\ Head(s) = " " THEN lstrip(Tail(s)) ELSE s

RECURSIVE rstrip(_)
rstrip(s) ==
    IF s # <<>> /\ s[Len(s)] = " " THEN rstrip(SubSeq(s, 1, Len(s) - 1)) ELSE s

\* get_user_input without .strip()
strip_Missing(s) == s

strip(s) == rstrip(lstrip(s))

\* Response.raise_for_status(): HTTPError for 4xx and 5xx
raise_for_status(status) == 400 <= status /\ status < 600

\* parse_sample_ids: the attribute value of every element that carries
\* data-sample-id, in document order
RECURSIVE parse_sample_ids(_)
parse_sample_ids(doc) ==
    IF doc = <<>> THEN <<>>
    ELSE IF Head(doc) \in SampleIds
         THEN <<Head(doc)>> \o parse_sample_ids(Tail(doc))
         ELSE parse_sample_ids(Tail(doc))

\* `not x` for a string, a list or None
Falsy(x) == x = None \/ x = <<>>

\* the exception classes below requests.RequestException
IsRequestException(exc) ==
    exc \in NetErrors \cup {"HTTPError", "TooManyRedirects", "ChunkedEncodingError"}

\* line 131: the size test that decides whether the file is removed
invalid_size(file_size) == file_size <= MIN_FILE_SIZE

\* bytes on disk when the stream or the write stops before the end
PartialSize(size) == size \div 2

\* the RequestException handlers of lines 136-148 end in `raise e`; the
\* OSError handler of lines 149-150 logs and returns
Result(exc, out, file, op, streamed, oserr) ==
    [exc |-> exc, outcome |-> out, file |-> file, opened |-> op,
     body |-> streamed, oserror |-> oserr]

\* download_sample without the 404 test of line 111
is_not_found_Never(status) == FALSE

\* line 111: response.status_code == 404
is_not_found(status) == status = 404

\* a destination file opened in append mode: the bytes follow the old ones
written_Append(file, n) == (IF file = NoFile THEN 0 ELSE file) + n

\* lines 124-127: open(file_path, 'wb') truncates the file, then n bytes
\* are written; the size of the file afterwards
written(file, n) == n

\* download_sample without its `except OSError` clause
except_OSError_Missing(exc) == exc

\* lines 149-150: `except OSError` logs the error and returns; what the
\* function raises for the OSError exc
except_OSError(exc) == "none"

\* one execution of the body of download_sample (lines 105-150) for the
\* response r, with `file` the destination file before the call
download_sample(r, file) ==
    IF r.kind = "error" THEN Result(r.exc, "none", file, FALSE, NoFile, FALSE)
    ELSE IF is_not_found(r.status)
    THEN Result("none", "SkippedNotFound", file, FALSE, NoFile, FALSE)
    ELSE IF raise_for_status(r.status)
    THEN Result("HTTPError", "none", file, FALSE, NoFile, FALSE)
    ELSE IF r.io = "open_fails"
    THEN Result(except_OSError("OSError"), "Failed", file, FALSE, NoFile, TRUE)
    ELSE IF r.io = "stream_breaks"
    THEN Result("ChunkedEncodingError", "none",
                written(file, PartialSize(r.size)), TRUE, NoFile, FALSE)
    ELSE IF r.io = "write_fails"
    THEN Result(except_OSError("OSError"), "Failed",
                written(file, PartialSize(r.size)), TRUE, NoFile, TRUE)
    ELSE IF r.io = "getsize_fails"
    THEN Result(except_OSError("OSError"), "Failed",
                written(file, r.size), TRUE, r.size, TRUE)
    ELSE IF invalid_size(written(file, r.size))
    THEN IF r.io = "remove_fails"
         THEN Result(except_OSError("OSError"), "Failed",
                     written(file, r.size), TRUE, r.size, TRUE)
         ELSE Result("none", "SkippedInvalidSize", NoFile, TRUE, r.size, FALSE)
    ELSE Result("none", "Success", written(file, r.size), TRUE, r.size, FALSE)

\* the failure kinds of the design, for a download response r whose
\* handling gave the result res
Classify(r, res) ==
    CASE r.kind = "error" /\ r.exc \in NetErrors -> "Transient"
      [] r.kind = "error" /\ r.exc = "TooManyRedirects" -> "Redirects"
      [] r.kind = "error" /\ r.exc = "ValueError" -> "Other"
      [] r.kind = "status" /\ r.status = 404 -> "NotFound"
      [] r.kind = "status" /\ r.status = 429 -> "RateLimited"
      [] r.kind = "status" /\ r.status >= 500 -> "Transient"
      [] r.kind = "status" /\ r.status < 500 /\ r.status >= 400 -> "Fatal"
      [] r.kind = "body" /\ res.oserror -> "FileError"
      [] r.kind = "body" /\ res.exc # "none" -> "Transient"
      [] OTHER -> "OK"

\* a wrapper that retries network errors only, not HTTPError
retry_if_exception_type_NetOnly(exc) ==
    exc \in NetErrors \cup {"TooManyRedirects", "ChunkedEncodingError"}

\* retry=retry_if_exception_type(requests.RequestException)
retry_if_exception_type(exc) == IsRequestException(exc)

\* the wrapper without a stop condition
stop_Never(attempt_number) == FALSE

\* the wrapper stopping one attempt late
stop_OneLate(attempt_number) == attempt_number > stop_after_attempt

\* stop=stop_after_attempt(5)
stop(attempt_number) == attempt_number >= stop_after_attempt

\* 2 ** n
RECURSIVE Pow2(_)
Pow2(n) == IF n = 0 THEN 1 ELSE 2 * Pow2(n - 1)

Min(a, b) == IF a <= b THEN a ELSE b
Max(a, b) == IF a >= b THEN a ELSE b

\* the arguments of wait_exponential in line 103
wait_multiplier == 1
wait_min == 2
wait_max == 10

\* the backoff of older tenacity releases: exp_base ** attempt_number
wait_exponential_FromTwo(attempt_number) ==
    Max(wait_min, Min(wait_multiplier * Pow2(attempt_number), wait_max))

\* wait=wait_exponential(multiplier=1, min=2, max=10): the seconds slept
\* after the failed attempt attempt_number (tenacity 8:
\* multiplier * 2 ** (attempt_number - 1), held between min and max)
wait_exponential(attempt_number) ==
    Max(wait_min, Min(wait_multiplier * Pow2(attempt_number - 1), wait_max))

\* what the @retry wrapper raises to the caller once it gives up on exc:
\* an exception that is not retried is re-raised as it is, a retried one
\* is wrapped in tenacity.RetryError (reraise is not set)
Raised(exc) == IF retry_if_exception_type(exc) THEN "RetryError" ELSE exc

\* main() without its last clause, `except Exception`
main_except_NoGeneric(exc) ==
    IF exc = "TooManyRedirects" THEN "TooManyRedirects"
    ELSE IF IsRequestException(exc) THEN "RequestException"
    ELSE "uncaught"

\* the except clauses of main() (lines 245-253), tried in order
main_except(exc) ==
    IF exc = "TooManyRedirects" THEN "TooManyRedirects"
    ELSE IF IsRequestException(exc) THEN "RequestException"
    ELSE IF exc # "KeyboardInterrupt" THEN "Exception"
    ELSE "uncaught"

\* --------------------------------------------------------------- actions

\* files a previous run with the same family can have left
OldFiles == {NoFile, 2048}

Init ==
    /\ pc = "load_cookies"
    /\ state = "Init"
    /\ uncaught = "none"
    /\ exitMsg = "none"
    /\ configFile \in ConfigFiles
    /\ sessionCookies = FALSE
    /\ family = None
    /\ searchResult = [kind |-> "none"]
    /\ searchGets = 0
    /\ parsed = FALSE
    /\ html_content = None
    /\ sample_ids = <<>>
    /\ download_dir = FALSE
    /\ idx = 0
    /\ dispatched = <<>>
    /\ attempt = 0
    /\ gets = 0
    /\ outcome = <<>>
    /\ handler = "none"
    /\ cls = "none"
    /\ uniform = TRUE
    /\ opened = FALSE
    /\ body = NoFile
    /\ partial = FALSE
    /\ waits = <<>>
    /\ cancelled = FALSE
    /\ respOpen = FALSE
    /\ fileOpen = FALSE
    /\ disk \in [SampleIds -> OldFiles]

\* main() left by an uncaught exception
Crash(exc) ==
    /\ pc' = "exit"
    /\ state' = "Failed"
    /\ uncaught' = exc
    /\ exitMsg' = exitMsg

\* main() left by a return after an error message
Fail(msg) ==
    /\ pc' = "exit"
    /\ state' = "Failed"
    /\ exitMsg' = msg
    /\ uncaught' = uncaught

\* CONFIG_FILE after lines 182-184: the browser is driven only when the
\* file does not exist
AfterBrowser(cfg, b) ==
    IF cfg # "absent" THEN cfg
    ELSE CASE b = "saved_cookies" -> "cookies"
           [] b = "saved_empty" -> "no_cookies"
           [] OTHER -> "absent"

\* load_cookies_into_session without the test of lines 190-192
cookies_loaded_Unchecked(cfg) == cfg \in {"cookies", "no_cookies"}

\* lines 189-192: config.get("cookies", {}) is not empty
cookies_loaded(cfg) == cfg = "cookies"

\* main() lines 202-216 with load_cookies_into_session
LoadCookies ==
    /\ pc = "load_cookies"
    /\ \E b \in BrowserOutcomes :
         /\ configFile' = AfterBrowser(configFile, b)
         /\ IF configFile = "absent" /\ b = "launch_error"
            THEN Crash("WebDriverException") /\ UNCHANGED sessionCookies
            ELSE IF configFile' = "absent"
            THEN Crash("FileNotFoundError") /\ UNCHANGED sessionCookies
            ELSE IF configFile' = "invalid_json"
            THEN Crash("JSONDecodeError") /\ UNCHANGED sessionCookies
            ELSE IF cookies_loaded(configFile')
            THEN /\ sessionCookies' = (configFile' = "cookies")
                 /\ pc' = "get_input"
                 /\ state' = "Authenticated"
                 /\ UNCHANGED <<uncaught, exitMsg>>
            ELSE Fail("Failed to load cookies") /\ UNCHANGED sessionCookies
    /\ UNCHANGED <<searchVars, loopVars>>

\* main() lines 218-223 with get_user_input
GetUserInput ==
    /\ pc = "get_input"
    /\ \E typed \in FamilyInputs :
         /\ family' = strip(typed)
         /\ IF Falsy(family')
            THEN Fail("Family name cannot be empty")
            ELSE pc' = "fetch_search" /\ UNCHANGED <<state, uncaught, exitMsg>>
    /\ UNCHANGED <<authVars, searchResult, searchGets, parsed, html_content,
                   sample_ids, loopVars>>

\* fetch_search_page without response.raise_for_status()
fetch_search_page_NoRaise(r) == IF r.kind = "error" THEN None ELSE r.text

\* fetch_search_page (lines 77-90): the text of the response, or None after
\* a requests.RequestException
fetch_search_page(r) ==
    IF r.kind = "error" THEN None
    ELSE IF raise_for_status(r.status) THEN None
    ELSE r.text

\* main() lines 223-228 with fetch_search_page
FetchSearchPage ==
    /\ pc = "fetch_search"
    /\ \E r \in SearchResponses :
         /\ searchGets' = searchGets + 1
         /\ searchResult' = IF r.kind = "error" THEN r
                            ELSE [kind |-> "status", status |-> r.status]
         /\ html_content' = fetch_search_page(r)
         /\ IF Falsy(html_content')
            THEN Fail("Failed to retrieve search results")
            ELSE pc' = "parse" /\ UNCHANGED <<state, uncaught, exitMsg>>
    /\ UNCHANGED <<authVars, family, parsed, sample_ids, loopVars>>

\* main() without the test of lines 231-233
ParseSampleIds_NoEmptyTest ==
    /\ pc = "parse"
    /\ parsed' = TRUE
    /\ sample_ids' = parse_sample_ids(html_content)
    /\ pc' = "makedirs"
    /\ state' = "Searched"
    /\ UNCHANGED <<uncaught, exitMsg, authVars, family, searchResult,
                   searchGets, html_content, loopVars>>

\* main() lines 230-235 with parse_sample_ids
ParseSampleIds ==
    /\ pc = "parse"
    /\ parsed' = TRUE
    /\ sample_ids' = parse_sample_ids(html_content)
    /\ IF Falsy(sample_ids')
       THEN /\ pc' = "exit"
            /\ state' = "Done"
            /\ exitMsg' = "No samples found"
            /\ uncaught' = uncaught
       ELSE /\ pc' = "makedirs"
            /\ state' = "Searched"
            /\ UNCHANGED <<uncaught, exitMsg>>
    /\ UNCHANGED <<authVars, family, searchResult, searchGets, html_content,
                   loopVars>>

\* main() lines 237-239: os.makedirs(download_dir, exist_ok=True) creates
\* the directory or raises OSError
MakeDirs ==
    /\ pc = "makedirs"
    /\ \E created \in BOOLEAN :
         IF created
         THEN /\ download_dir' = TRUE
              /\ idx' = 1
              /\ pc' = "loop"
              /\ state' = "Downloading"
              /\ UNCHANGED <<uncaught, exitMsg>>
         ELSE Crash("OSError") /\ UNCHANGED <<download_dir, idx>>
    /\ UNCHANGED <<authVars, searchVars, dispatched, attempt, gets, outcome,
                   handler, cls, uniform, opened, body, partial, waits,
                   cancelled, respOpen, fileOpen, disk>>

\* main() lines 241-244: the for loop hands the next identifier to
\* download_sample; the wrapper starts counting attempts at 1
Dispatch ==
    /\ pc = "loop"
    /\ idx <= Len(sample_ids)
    /\ dispatched' = Append(dispatched, sample_ids[idx])
    /\ attempt' = 1
    /\ gets' = 0
    /\ handler' = "none"
    /\ cls' = "none"
    /\ uniform' = TRUE
    /\ opened' = FALSE
    /\ body' = NoFile
    /\ partial' = FALSE
    /\ waits' = <<>>
    /\ pc' = "attempt"
    /\ UNCHANGED <<state, uncaught, exitMsg, authVars, searchVars,
                   download_dir, idx, outcome, cancelled, respOpen,
                   fileOpen, disk>>

\* the download of sample_ids[idx] is over: lines 255-256 and the next
\* turn of the loop
EndItem(out, h) ==
    /\ outcome' = Append(outcome, out)
    /\ handler' = h
    /\ idx' = idx + 1
    /\ pc' = "loop"
    /\ UNCHANGED <<state, uncaught, exitMsg, attempt>>

\* one attempt of download_sample under @retry (lines 100-150) and, when
\* the wrapper gives up or the function returns, the except clauses of
\* main() (lines 245-253); the with statements of lines 110 and 124 have
\* closed the response and the file by the time the attempt is over
DownloadAttempt ==
    /\ pc = "attempt"
    /\ \E r \in Responses :
         LET id == sample_ids[idx]
             res == download_sample(r, disk[id])
             c == Classify(r, res)
         IN /\ gets' = gets + 1
            /\ disk' = [disk EXCEPT ![id] = res.file]
            /\ cls' = c
            /\ uniform' = (attempt = 1 \/ (uniform /\ cls = c))
            /\ opened' = (opened \/ res.opened)
            /\ body' = res.body
            /\ partial' = (partial \/ (res.opened /\ res.body = NoFile))
            /\ IF res.exc = "none"
               THEN /\ EndItem(res.outcome, IF res.oserror THEN "OSError" ELSE "none")
                    /\ waits' = waits
               ELSE IF retry_if_exception_type(res.exc) /\ ~stop(attempt)
               THEN /\ attempt' = attempt + 1
                    /\ waits' = Append(waits, wait_exponential(attempt))
                    /\ UNCHANGED <<pc, state, uncaught, exitMsg, outcome,
                                   handler, idx>>
               ELSE IF main_except(Raised(res.exc)) = "uncaught"
               THEN /\ Crash(Raised(res.exc))
                    /\ UNCHANGED <<outcome, handler, idx, attempt, waits>>
               ELSE /\ EndItem("Failed", main_except(Raised(res.exc)))
                    /\ waits' = waits
    /\ UNCHANGED <<authVars, searchVars, download_dir, dispatched, cancelled,
                   respOpen, fileOpen>>

\* main() line 258, after the last turn of the loop
Finish ==
    /\ pc = "loop"
    /\ idx > Len(sample_ids)
    /\ pc' = "exit"
    /\ state' = "Done"
    /\ exitMsg' = "All downloads completed successfully!"
    /\ UNCHANGED <<uncaught, authVars, searchVars, loopVars>>

Next ==
    \/ LoadCookies
    \/ GetUserInput
    \/ FetchSearchPage
    \/ ParseSampleIds
    \/ MakeDirs
    \/ Dispatch
    \/ DownloadAttempt
    \/ Finish

Spec == Init /\ [][Next]_vars

\* ----------------------------------------------------------- cancellation

\* where KeyboardInterrupt can be raised inside one attempt: while
\* tenacity sleeps before the attempt, inside session.get (line 110),
\* inside the with block of the response before the file is opened (lines
\* 111-123), or inside the with block of the file (lines 124-127)
InterruptPoints == {"in_wait", "in_get", "after_response", "in_stream"}

\* open() and session.get() used without a with statement
with_exit_Leak(handle) == handle

\* lines 110 and 124: leaving a with block, by an exception too, closes
\* what the block opened; the handle afterwards
with_exit(handle) == FALSE

\* Ctrl-C while the loop of lines 241-256 runs: KeyboardInterrupt is raised
\* where main() stands.  Between two downloads (lines 241-242, 255-256) no
\* try block is active and the exception leaves main(); inside an attempt
\* it is raised with the handles of that point open
Interrupt ==
    /\ state = "Downloading"
    /\ pc \in {"loop", "attempt"}
    /\ cancelled' = TRUE
    /\ IF pc = "loop"
       THEN /\ Crash("KeyboardInterrupt")
            /\ UNCHANGED <<gets, respOpen, fileOpen, opened, partial, disk>>
       ELSE \E point \in InterruptPoints, size \in BodySizes :
              LET id == sample_ids[idx]
              IN /\ point = "in_wait" => attempt > 1
                 /\ gets' = IF point = "in_wait" THEN gets ELSE gets + 1
                 /\ respOpen' = (point \in {"after_response", "in_stream"})
                 /\ fileOpen' = (point = "in_stream")
                 /\ opened' = (opened \/ point = "in_stream")
                 /\ partial' = (partial \/ point = "in_stream")
                 /\ disk' = IF point = "in_stream"
                            THEN [disk EXCEPT ![id] = written(disk[id], PartialSize(size))]
                            ELSE disk
                 /\ pc' = "unwinding"
                 /\ UNCHANGED <<state, uncaught, exitMsg>>
    /\ UNCHANGED <<authVars, searchVars, download_dir, idx, dispatched,
                   attempt, outcome, handler, cls, uniform, body, waits>>

\* KeyboardInterrupt travels up from download_sample: the with blocks
\* close the file and the response, the except clauses of lines 136-150 do
\* not match it, the wrapper does not retry it and main() handles it with
\* the clauses of lines 245-253
Unwind ==
    /\ pc = "unwinding"
    /\ fileOpen' = with_exit(fileOpen)
    /\ respOpen' = with_exit(respOpen)
    /\ IF main_except(Raised("KeyboardInterrupt")) = "uncaught"
       THEN /\ Crash(Raised("KeyboardInterrupt"))
            /\ UNCHANGED <<outcome, handler, idx, attempt>>
       ELSE EndItem("Failed", main_except(Raised("KeyboardInterrupt")))
    /\ UNCHANGED <<authVars, searchVars, download_dir, dispatched, gets, cls,
                   uniform, opened, body, partial, waits, cancelled, disk>>

NextCancel ==
    \/ LoadCookies
    \/ GetUserInput
    \/ FetchSearchPage
    \/ ParseSampleIds
    \/ MakeDirs
    \/ Dispatch
    \/ DownloadAttempt
    \/ Finish
    \/ Interrupt
    \/ Unwind

\* the run with Ctrl-C possible during the download loop
SpecCancel == Init /\ [][NextCancel]_vars

\* the run in which every step main() is about to take is taken in the
\* end: the browser, the prompt and every HTTP request return or raise
FairSpec == Init /\ [][Next]_vars /\ WF_vars(Next)

\* ---------------------------------------------------------------- claims

\* the loop over sample_ids has started
LoopStarted == download_dir

\* every identifier handed to download_sample has finished its download
Ended == pc # "attempt" /\ Len(outcome) > 0
\* the download that finished last, its identifier and its outcome
last == Len(outcome)
lastId == sample_ids[last]
lastOutcome == outcome[last]

\* C1: once the loop has started, the identifiers handed to download_sample
\* are, at every moment, the first ones of sample_ids in list order, each
\* handed over once, and main() leaves the loop only after the last one,
\* through the normal end of the loop: no per-item failure ends it early.
C1_EveryIdDispatchedOnce ==
    /\ Len(dispatched) <= Len(sample_ids)
    /\ dispatched = SubSeq(sample_ids, 1, Len(dispatched))
    /\ LoopStarted => Len(dispatched) = (IF pc = "attempt" THEN idx ELSE idx - 1)
    /\ (LoopStarted /\ pc = "exit") =>
          /\ dispatched = sample_ids
          /\ Len(outcome) = Len(sample_ids)
          /\ state = "Done"
          /\ uncaught = "none"

\* the loop is over although the first of several identifiers failed
C1_Witness ==
    /\ LoopStarted /\ pc = "exit"
    /\ Len(sample_ids) >= 2
    /\ outcome[1] = "Failed"
    /\ dispatched = sample_ids

\* C2: when every attempt of a download fails with a Transient failure the
\* identifier gets exactly 5 GETs and ends Failed; no identifier gets more
\* than 5 GETs; the attempt counter is the number of GETs of the running
\* identifier plus one, so it starts at 1 for every identifier.
C2_FiveAttemptsThenFailed ==
    /\ gets <= 5
    /\ pc = "attempt" => (attempt = gets + 1 /\ attempt <= 5)
    /\ (Ended /\ uniform /\ cls = "Transient") =>
          (gets = 5 /\ lastOutcome = "Failed")

\* a second identifier used its 5 attempts after the first one used its own
C2_Witness ==
    /\ Ended /\ uniform /\ cls = "Transient"
    /\ last >= 2
    /\ outcome[1] = "Failed"
    /\ gets = 5
    /\ lastOutcome = "Failed"


\* C3 as claimed: a Fatal (4xx other than 404 and 429) or RateLimited (429)
\* response ends the identifier at once: one GET, an error outcome, and the
\* loop goes on.
C3_Claimed_FatalNotRetried ==
    (Len(dispatched) > 0 /\ cls \in {"Fatal", "RateLimited"}) =>
        /\ pc # "attempt"
        /\ gets = 1
        /\ lastOutcome = "Failed"

\* C3 as amended: a Fatal or RateLimited status is a requests.HTTPError, so
\* it is retried like a Transient failure: while fewer than 5 GETs were
\* issued the download goes on with the next attempt, and when every
\* attempt got such a status the identifier ends after exactly 5 GETs with
\* the outcome Failed, handled by the generic clause of main(), and the
\* loop goes on. A download that ends after responses of one class other
\* than a RequestException (404, a kept or removed body, a local file
\* error, another exception) ends at its first GET.
C3_FatalRetriedLikeTransient ==
    /\ (pc # "load_cookies" /\ cls \in {"Fatal", "RateLimited"}) =>
          /\ uncaught = "none"
          /\ gets < 5 => (pc = "attempt" /\ attempt = gets + 1)
          /\ gets = 5 => (Ended /\ lastOutcome = "Failed" /\ handler = "Exception")
    /\ (Ended /\ uniform /\ cls \in {"Fatal", "RateLimited"}) => gets = 5
    /\ (Ended /\ uniform /\ cls \in {"NotFound", "OK", "FileError", "Other"})
          => gets = 1

\* five 403 or five 429 responses ended an identifier and the loop went on
C3_Witness ==
    /\ Ended /\ uniform /\ cls \in {"Fatal", "RateLimited"}
    /\ gets = 5
    /\ lastOutcome = "Failed"
    /\ last >= 2

\* C4: the attempt that gets a 404 ends the download in the same step with
\* the outcome SkippedNotFound: the attempt counter is not advanced, no
\* further GET follows, the files on disk are left as they were and no
\* exception reaches the loop of main().
C4_NotFoundEndsAtOnce ==
    [][(pc = "attempt" /\ cls' = "NotFound") =>
          /\ gets' = gets + 1
          /\ attempt' = attempt
          /\ pc' = "loop"
          /\ idx' = idx + 1
          /\ outcome' = Append(outcome, "SkippedNotFound")
          /\ handler' = "none"
          /\ disk' = disk
          /\ uncaught' = "none"
          /\ state' = state]_vars

\* a 404 at the first attempt ended a download
C4_Witness ==
    /\ Ended /\ cls = "NotFound"
    /\ gets = 1
    /\ lastOutcome = "SkippedNotFound"
    /\ handler = "none"


\* C5 as claimed: after a 2xx body was streamed to the end (and no local
\* file error occurred) the file is kept with the outcome Success exactly
\* when the byte count is at least 1024, and is removed with the outcome
\* SkippedInvalidSize when it is below 1024.
C5_Claimed_KeptFrom1024 ==
    (Ended /\ cls = "OK") =>
        IF body >= 1024
        THEN lastOutcome = "Success" /\ disk[lastId] = body
        ELSE lastOutcome = "SkippedInvalidSize" /\ disk[lastId] = NoFile

\* C6 as claimed: when a download ends with an outcome other than Success,
\* no file written by that download remains in the destination directory.
C6_Claimed_NoPartialFile ==
    (Ended /\ lastOutcome # "Success" /\ opened) => disk[lastId] = NoFile

\* C7: a search or download GET is issued only with the stored cookies
\* loaded into the session, and when the bundle read by
\* load_cookies_into_session is missing, unreadable or without cookies the
\* run ends Failed with no search GET and no download GET issued.
C7_NoRequestWithoutCookies ==
    /\ (searchGets > 0 \/ gets > 0 \/ dispatched # <<>>) =>
          (sessionCookies /\ configFile = "cookies")
    /\ (pc # "load_cookies" /\ configFile # "cookies") =>
          /\ pc = "exit"
          /\ state = "Failed"
          /\ ~sessionCookies
          /\ searchGets = 0
          /\ gets = 0
          /\ dispatched = <<>>

\* the run ended because the stored bundle holds no cookies
C7_Witness ==
    /\ pc = "exit"
    /\ configFile = "no_cookies"
    /\ exitMsg = "Failed to load cookies"
    /\ searchGets = 0

\* the search request failed as the claim says: a network error or a
\* status outside 200..299
SearchFailedNon2xx ==
    \/ searchResult.kind = "error"
    \/ searchResult.kind = "status"
         /\ ~(200 <= searchResult.status /\ searchResult.status < 300)

\* the search request failed as fetch_search_page sees it: a network error
\* or a 4xx or 5xx status
SearchFailed4xx5xx ==
    \/ searchResult.kind = "error"
    \/ searchResult.kind = "status"
         /\ 400 <= searchResult.status /\ searchResult.status < 600

\* C8 as claimed: the search GET is issued at most once, and when it fails
\* with a network error or a non-2xx status the run ends Failed, the parser
\* is not called and no download GET is issued.
C8_Claimed_Non2xxFails ==
    /\ searchGets <= 1
    /\ SearchFailedNon2xx =>
          /\ pc = "exit" /\ state = "Failed"
          /\ ~parsed
          /\ gets = 0 /\ dispatched = <<>>

\* C8 as amended: the search GET is issued at most once, and when it fails
\* with a network error or a 4xx or 5xx status the run ends Failed, the
\* parser is not called and no download GET is issued; the parser is
\* called only after a search response that is neither.
C8_SearchErrorFails ==
    /\ searchGets <= 1
    /\ SearchFailed4xx5xx =>
          /\ pc = "exit" /\ state = "Failed"
          /\ exitMsg = "Failed to retrieve search results"
          /\ ~parsed
          /\ gets = 0 /\ dispatched = <<>>
    /\ parsed => (searchGets = 1 /\ ~SearchFailed4xx5xx)

\* the one search GET got a 4xx or 5xx status and the run ended
C8_Witness ==
    /\ searchGets = 1
    /\ searchResult.kind = "status"
    /\ SearchFailed4xx5xx
    /\ state = "Failed"
    /\ ~parsed

\* C9: when the search page was fetched and parse_sample_ids returned no
\* identifier, the run is over in Done without an uncaught error, no
\* download was dispatched, no GET for a download was issued, no directory
\* or file was created and no outcome is recorded.
C9_NoIdentifiersIsDone ==
    (parsed /\ sample_ids = <<>>) =>
        /\ pc = "exit"
        /\ state = "Done"
        /\ uncaught = "none"
        /\ exitMsg = "No samples found"
        /\ dispatched = <<>>
        /\ gets = 0
        /\ outcome = <<>>
        /\ ~download_dir
        /\ ~opened

\* a document without any data-sample-id was parsed
C9_Witness ==
    /\ parsed
    /\ html_content # <<>>
    /\ sample_ids = <<>>
    /\ state = "Done"


\* the place of a state in Init, Authenticated, Searched, Downloading, Done
Rank(s) ==
    CASE s = "Init" -> 0
      [] s = "Authenticated" -> 1
      [] s = "Searched" -> 2
      [] s = "Downloading" -> 3
      [] s = "Done" -> 4
      [] OTHER -> 5

\* C10 as claimed: the run only moves forward through Init, Authenticated,
\* Searched, Downloading, Done; Done and Failed are final; Failed is entered
\* only from Init or Authenticated; and once Searched is reached the run is
\* never left by an uncaught error.
C10_Claimed_ForwardOnly ==
    [][/\ state' # state =>
            /\ state \notin {"Done", "Failed"}
            /\ IF state' = "Failed"
               THEN state \in {"Init", "Authenticated"}
               ELSE Rank(state') > Rank(state)
       /\ state \in {"Searched", "Downloading", "Done"} => uncaught' = "none"]_vars


\* the values of data-sample-id in doc, each at its first occurrence only
RECURSIVE FirstOccurrences(_, _)
FirstOccurrences(doc, seen) ==
    IF doc = <<>> THEN <<>>
    ELSE IF Head(doc) \in SampleIds /\ Head(doc) \notin seen
         THEN <<Head(doc)>> \o FirstOccurrences(Tail(doc), seen \cup {Head(doc)})
         ELSE FirstOccurrences(Tail(doc), seen)

\* C11 as claimed: parse_sample_ids returns the values of data-sample-id in
\* first-occurrence document order without duplicates (and the empty
\* sequence for a document without the attribute), so that an identifier
\* marked several times is handed to download_sample once.
C11_Claimed_NoDuplicates ==
    parsed =>
        /\ sample_ids = FirstOccurrences(html_content, {})
        /\ \A i, j \in 1..Len(dispatched) :
              dispatched[i] = dispatched[j] => i = j

\* the delay the claim gives for the failed attempt k: min(2 * 2^(k-1), 10)
ClaimedDelay(k) == Min(2 * Pow2(k - 1), 10)

\* C12 as claimed: the wait after the failed attempt k is
\* min(2 * 2^(k-1), 10), and a download whose attempts all fail with a
\* Transient failure is granted a retry after each of the attempts 1 to 5.
C12_Claimed_Delays ==
    /\ \A k \in 1..Len(waits) : waits[k] = ClaimedDelay(k)
    /\ (Ended /\ uniform /\ cls = "Transient") => Len(waits) = 5

\* C12 as amended: the wait after the failed attempt k is
\* max(2, min(2^(k-1), 10)), so the successive delays are 2, 2, 4, 8; a
\* retry is granted after the failed attempts 1 to 4 and none after
\* attempt 5.
C12_DelaysTwoTwoFourEight ==
    /\ Len(waits) <= 4
    /\ waits = SubSeq(<<2, 2, 4, 8>>, 1, Len(waits))
    /\ pc = "attempt" => Len(waits) = attempt - 1
    /\ (Ended /\ uniform /\ cls = "Transient") => waits = <<2, 2, 4, 8>>
    /\ (Ended /\ gets = 5) => Len(waits) = 4

\* a download used up its attempts and slept four times
C12_Witness ==
    /\ Ended /\ uniform /\ cls = "Transient"
    /\ gets = 5
    /\ waits = <<2, 2, 4, 8>>

\* C13 as claimed: when every attempt of a download exceeds the redirect
\* bound the download is retried up to the cap of 5 attempts and then ends
\* Failed, handled by the TooManyRedirects clause of main().
C13_Claimed_RedirectsHandler ==
    (Ended /\ uniform /\ cls = "Redirects") =>
        /\ gets = 5
        /\ lastOutcome = "Failed"
        /\ handler = "TooManyRedirects"


\* s is empty or made of blanks only
IsBlank(s) == \A i \in 1..Len(s) : s[i] = " "

\* C15: a search GET is issued only for a family name that still has a
\* character other than a blank, and it has no blank at either end; when
\* the name is empty after strip() the run is over in Failed with no search
\* GET, no download GET and no download directory.
C15_NoSearchForEmptyFamily ==
    /\ searchGets > 0 =>
          /\ ~IsBlank(family)
          /\ Head(family) # " " /\ family[Len(family)] # " "
    /\ (pc \notin {"load_cookies", "get_input"} /\ state # "Init"
          /\ IsBlank(family)) =>
          /\ pc = "exit" /\ state = "Failed"
          /\ exitMsg = "Family name cannot be empty"
          /\ searchGets = 0
          /\ gets = 0 /\ dispatched = <<>>
          /\ ~download_dir

\* the run ended at the prompt because the family name was empty
C15_Witness ==
    /\ family = <<>>
    /\ pc = "exit"
    /\ state = "Failed"
    /\ searchGets = 0

\* C17: when a download ends with Success, also after failed attempts that
\* left part of a body in the destination file, the kept file has exactly
\* the size of the body of the last attempt: nothing of an earlier attempt
\* or of an older file is kept in front of it.
C17_FileIsLastBody ==
    (Ended /\ lastOutcome = "Success") =>
        /\ cls = "OK"
        /\ body \in BodySizes
        /\ disk[lastId] = body

\* a download succeeded after an attempt that stopped inside a body
C17_Witness ==
    /\ Ended /\ lastOutcome = "Success"
    /\ partial
    /\ gets >= 2
    /\ disk[lastId] = body

\* C18: the attempt that meets a local file error (open, write, getsize or
\* remove raising OSError) ends the download in the same step inside
\* download_sample: the attempt counter is not advanced, no further GET
\* follows, no exception reaches main() and the loop goes on.
C18_FileErrorHandledInside ==
    [][(pc = "attempt" /\ cls' = "FileError") =>
          /\ gets' = gets + 1
          /\ attempt' = attempt
          /\ waits' = waits
          /\ pc' = "loop"
          /\ idx' = idx + 1
          /\ outcome' = Append(outcome, "Failed")
          /\ handler' = "OSError"
          /\ uncaught' = "none"
          /\ state' = state]_vars

\* a download met a file error at its first GET and the loop is about to
\* hand over the next identifier
C18_Witness ==
    /\ pc = "loop" /\ idx <= Len(sample_ids)
    /\ Ended /\ cls = "FileError"
    /\ lastOutcome = "Failed"
    /\ handler = "OSError"
    /\ gets = 1
    /\ uncaught = "none"

\* ------------------------------------------------------------------ C14

\* a run that finds the download directory empty
InitFresh == Init /\ disk = [id \in SampleIds |-> NoFile]

SpecFresh == InitFresh /\ [][Next]_vars

OutcomeKinds == {"Success", "SkippedInvalidSize", "SkippedNotFound", "Failed"}

\* number of downloads that ended with the outcome kind k
Count(k) == Cardinality({i \in 1..Len(outcome) : outcome[i] = k})

\* the identifiers whose download ended with Success
Succeeded == {sample_ids[i] : i \in {j \in 1..Len(outcome) : outcome[j] = "Success"}}

\* C14 as claimed: when a run that started with an empty download
\* directory is Done after its loop, every identifier has one outcome among
\* the four kinds, the counts of the kinds add up to the number of
\* identifiers, the run reports full success only when no download Failed,
\* and the files on disk are exactly those of the identifiers that ended
\* with Success.  main() prints its success message after every loop and
\* files of other outcomes remain, so this does not hold.
C14_Claimed_Summary ==
    (pc = "exit" /\ state = "Done" /\ LoopStarted) =>
        /\ Len(outcome) = Len(sample_ids)
        /\ \A i \in 1..Len(outcome) : outcome[i] \in OutcomeKinds
        /\ Count("Success") + Count("SkippedInvalidSize")
             + Count("SkippedNotFound") + Count("Failed") = Len(sample_ids)
        /\ (exitMsg = "All downloads completed successfully!"
              => Count("Failed") = 0)
        /\ {id \in SampleIds : disk[id] # NoFile} = Succeeded

\* ------------------------------------------------------------------ C16

\* C16: once KeyboardInterrupt has been raised in the download loop, no
\* further identifier is handed to download_sample and no further GET is
\* issued, the run is unwinding or has left main() and the unwinding can
\* always go on, and when main() has been left the response and the
\* destination file of the interrupted attempt are closed.
C16_CancelStopsCleanly ==
    /\ [](cancelled => pc \in {"unwinding", "exit"})
    /\ [](pc = "unwinding" => ENABLED Unwind)
    /\ []((cancelled /\ pc = "exit") => (~respOpen /\ ~fileOpen))
    /\ [][cancelled => /\ dispatched' = dispatched
                       /\ gets' = gets
                       /\ searchGets' = searchGets]_vars

\* Ctrl-C arrived while the body of a download was being written, with an
\* identifier still to come: the run is over, the file holds part of the
\* body and both handles are closed
C16_Witness ==
    /\ pc = "exit"
    /\ cancelled
    /\ uncaught = "KeyboardInterrupt"
    /\ partial
    /\ Len(dispatched) < Len(sample_ids)
    /\ disk[sample_ids[Len(dispatched)]] = PartialSize(2048)
    /\ ~respOpen /\ ~fileOpen

\* ------------------------------------------------------------------ C19

\* the steps of main() one identifier can take: its dispatch and
\* stop_after_attempt attempts
StepsPerId == stop_after_attempt + 1

\* an upper bound on the steps main() can still take; before
\* parse_sample_ids has returned the list holds at most MaxElems identifiers
StepsLeft ==
    CASE pc = "exit" -> 0
      [] pc = "attempt" ->
           (Len(sample_ids) - idx) * StepsPerId + (StepsPerId - attempt) + 1
      [] pc = "loop" -> (Len(sample_ids) - idx + 1) * StepsPerId + 1
      [] pc = "makedirs" -> Len(sample_ids) * StepsPerId + 2
      [] pc = "parse" -> MaxElems * StepsPerId + 3
      [] pc = "fetch_search" -> MaxElems * StepsPerId + 4
      [] pc = "get_input" -> MaxElems * StepsPerId + 5
      [] pc = "load_cookies" -> MaxElems * StepsPerId + 6

\* C19: every run ends: as long as main() has not been left a step can be
\* taken, and every step lowers StepsLeft, which is never negative, so no
\* run takes more than MaxElems * StepsPerId + 6 steps; main() is left in
\* state Done or Failed.  The run issues at most one search GET.  Download
\* GETs are issued one at a time for the identifier dispatched last, never
\* more than stop_after_attempt of them, and the count starts again only
\* when the next identifier is dispatched, which happens at most once for
\* each of the n parsed identifiers: at most stop_after_attempt * n
\* download GETs in all.
C19_TerminatesWithinBudget ==
    /\ [](pc # "exit" => ENABLED Next)
    /\ [](StepsLeft >= 0)
    /\ [][StepsLeft' < StepsLeft]_vars
    /\ [](pc = "exit" => state \in {"Done", "Failed"})
    /\ [](searchGets <= 1)
    /\ [](gets <= stop_after_attempt)
    /\ [](Len(dispatched) <= Len(sample_ids))
    /\ [][gets' # gets =>
            \/ gets' = gets + 1 /\ dispatched' = dispatched
            \/ gets' = 0 /\ Len(dispatched') = Len(dispatched) + 1]_vars

\* a finished run that used its whole budget: one search GET and, for each
\* of its two identifiers, stop_after_attempt download GETs that the
\* wrapper gave up on
C19_Witness ==
    /\ pc = "exit"
    /\ state = "Done"
    /\ searchGets = 1
    /\ Len(sample_ids) = 2
    /\ outcome = <<"Failed", "Failed">>
    /\ handler = "Exception"
    /\ gets = stop_after_attempt
====
